---- MODULE Spec2Model ----
\* A model of src/src/lib.rs: the WriteLocal submission handle, the bounded
\* flume channel behind it and the write_to_local worker loop that merges the
\* requests per path and flushes them to the file system.
EXTENDS Integers, Sequences, FiniteSets, TLC

\* ---------------------------------------------------------------- bounds

\* Capacity of the channel in the model (the code passes 1000 to bounded()).
QueueCap == 2

\* Total number of WriteLocal::write calls in one behaviour.
MaxSends == 3

\* The threads that may hold a WriteLocal handle, and the destination paths.
Producers == {1, 2}
Paths == {"A", "B"}

\* ------------------------------------------------------------ the state

VARIABLES
    chan,    \* the requests in the bounded channel, oldest first
    hstate,  \* per producer: "idle", "blocked" (inside send), "dropped"
    pend,    \* per producer: the request a blocked send is holding
    nsent,   \* number of WriteLocal::write calls so far
    pc,      \* the worker's position: "recv", "sleep", "merge", "flush", "done"
    tmp,     \* the worker's staging vector
    cached,  \* the worker's map: path -> entry (NoEntry when the key is absent)
    todo,    \* the entries the running flush iteration still has to visit
    files,   \* the file system: path -> content
    taken,   \* history: the requests the current cycle has taken, in order
    pre,     \* history: cached when the current cycle began
    fpre,    \* history: files when the current cycle began
    snap,    \* history: cached when the current cycle's merge loop ended
    wlog,    \* history: path -> the physical writes of the current cycle
    lost,    \* history: path -> bytes of buffers cleared after a failed write
    mlast,   \* history: per producer, the call number of its last merged request
    nmerged, \* history: number of requests the merge loop has processed
    dropat,  \* history: requests not yet merged when the last handle went (-1 before)
    waited   \* history: call number of the last request whose send waited and completed (0 before)

vars == <<chan, hstate, pend, nsent, pc, tmp, cached, todo, files,
          taken, pre, fpre, snap, wlog, lost, mlast, nmerged, dropat, waited>>

hist == <<taken, pre, fpre, snap, wlog, lost, mlast, nmerged, dropat, waited>>

\* ------------------------------------------------------------ WriteData

NoEntry == [kind |-> "None", buf |-> <<>>]

AppendData(b) == [kind |-> "Append", buf |-> b]

OverrideData(b) == [kind |-> "Override", buf |-> b]

Range(s) == {s[i] : i \in 1..Len(s)}

\* WriteData::write with the Append arm putting the new bytes in front.
WriteData_write_prepend(e, data) ==
    IF e.kind = "Append" THEN [e EXCEPT !.buf = data \o @]
    ELSE [e EXCEPT !.buf = data]

\* WriteData::write with both arms extending the buffer.
WriteData_write_extend(e, data) == [e EXCEPT !.buf = @ \o data]

\* WriteData::write: an Append entry is extended, an Override entry replaced.
WriteData_write(e, data) ==
    IF e.kind = "Append" THEN [e EXCEPT !.buf = @ \o data]
    ELSE [e EXCEPT !.buf = data]

\* WriteData::clear: the buffer is emptied, the variant stays.
WriteData_clear(e) == [e EXCEPT !.buf = <<>>]

\* WriteData::len
WriteData_len(e) == Len(e.buf)

\* WriteData::is_empty
WriteData_is_empty(e) == Len(e.buf) = 0

\* insert in place of or_insert: the entry is made anew for every fragment.
OrInsert_fresh(e, dflt) == dflt

\* HashMap::entry(f).or_insert(dflt): the entry of the key, created when absent.
OrInsert(e, dflt) == IF e.kind = "None" THEN dflt ELSE e

\* The merge loop's body without its test for an empty payload.
MergeInto_noskip(c, f, d) ==
    IF d.kind = "Append"
    THEN [c EXCEPT ![f] = WriteData_write(OrInsert(c[f], AppendData(<<>>)), d.buf)]
    ELSE [c EXCEPT ![f] = WriteData_write(OrInsert(c[f], OverrideData(<<>>)), d.buf)]

\* One turn of the merge loop's body for the request (f, d).
MergeInto(c, f, d) ==
    IF WriteData_is_empty(d) THEN c
    ELSE IF d.kind = "Append"
         THEN [c EXCEPT ![f] = WriteData_write(OrInsert(c[f], AppendData(<<>>)), d.buf)]
         ELSE [c EXCEPT ![f] = WriteData_write(OrInsert(c[f], OverrideData(<<>>)), d.buf)]

\* The merge loop: the requests of t merged into c, first to last.
RECURSIVE MergeAll(_, _)
MergeAll(c, t) ==
    IF t = <<>> THEN c
    ELSE MergeAll(MergeInto(c, Head(t).f, Head(t).d), Tail(t))

\* The call number of the last request of producer b in t (dflt when none).
RECURSIVE LastOf(_, _, _)
LastOf(b, t, dflt) ==
    IF t = <<>> THEN dflt
    ELSE LastOf(b, Tail(t), IF Head(t).by = b THEN Head(t).id ELSE dflt)

\* The keys of the map.
Entries(c) == {f \in Paths : c[f].kind # "None"}

\* ----------------------------------------------------------- the channel

Live == {p \in Producers : hstate[p] \in {"idle", "blocked"}}

\* Vec::push of the received request.
TmpPush(t, r) == Append(t, r)

Reverse(s) == [i \in 1..Len(s) |-> s[Len(s) + 1 - i]]

\* A drain whose requests are not added to tmp.
TmpExtend_lose(t, c) == t

\* A drain that hands the queued requests over newest first.
TmpExtend_rev(t, c) == t \o Reverse(c)

\* Receiver::drain: everything queued, oldest first; Vec::extend keeps the order.
TmpExtend(t, c) == t \o c

\* The payloads call number id may carry: empty or one byte, of either variant.
Payloads(id) ==
    {AppendData(<<>>), AppendData(<<id>>), OverrideData(<<>>), OverrideData(<<id>>)}

\* ------------------------------------------------------- the file system

\* OpenOptions::append + File::write: an error leaves the file alone, Ok(n)
\* has added the first n bytes of the buffer.
AppendOutcomes(buf, old) ==
    {[res |-> "err", n |-> 0, content |-> old]}
    \cup {[res |-> "ok", n |-> k, content |-> old \o SubSeq(buf, 1, k)] : k \in 0..Len(buf)}

\* fs_err::write (create or truncate, then write_all): Ok leaves exactly the
\* buffer; an error leaves the old content or a truncated, partly written file.
OverrideOutcomes(buf, old) ==
    {[res |-> "ok", n |-> Len(buf), content |-> buf]}
    \cup {[res |-> "err", n |-> 0, content |-> c] :
            c \in {old} \cup {SubSeq(buf, 1, k) : k \in 0..(Len(buf) - 1)}}

\* A flush that writes every entry in append mode.
Outcomes_append(e, old) == AppendOutcomes(e.buf, old)

\* The physical write of an entry, by its variant.
Outcomes(e, old) ==
    IF e.kind = "Override" THEN OverrideOutcomes(e.buf, old)
    ELSE AppendOutcomes(e.buf, old)

\* A flush loop that has lost its test for an empty buffer.
FlushSkips_never(e) == FALSE

\* The flush loop's test of an entry: one with nothing pending is skipped.
FlushSkips(e) == WriteData_is_empty(e)

\* The buffer cleared only after a successful write (a failed one is retried).
AfterWrite_retry(e, out) == IF out.res = "ok" THEN WriteData_clear(e) ELSE e

\* The buffer never cleared after the write.
AfterWrite_keep(e, out) == e

\* The entry after its physical write: cleared, whatever the outcome.
AfterWrite(e, out) == WriteData_clear(e)

\* A flush loop that an I/O error ends.
FlushRest_break(t, p, out) == IF out.res = "err" THEN {} ELSE t \ {p}

\* The entries left to visit after p's write: the loop goes on after an error.
FlushRest(t, p, out) == t \ {p}

\* ---------------------------------------------------------------- Init

\* WriteLocal::init, and a clone of the handle it returns for every other
\* producer: an empty channel, the worker about to receive, and files that
\* already hold a byte (0) that no request carries.
Init ==
    /\ chan = <<>>
    /\ hstate = [p \in Producers |-> "idle"]
    /\ pend = [p \in Producers |-> NoEntry]
    /\ nsent = 0
    /\ pc = "recv"
    /\ tmp = <<>>
    /\ cached = [f \in Paths |-> NoEntry]
    /\ todo = {}
    /\ files = [f \in Paths |-> <<0>>]
    /\ taken = <<>>
    /\ pre = cached
    /\ fpre = files
    /\ snap = cached
    /\ wlog = [f \in Paths |-> <<>>]
    /\ lost = [f \in Paths |-> {}]
    /\ mlast = [b \in Producers |-> 0]
    /\ nmerged = 0
    /\ dropat = -1
    /\ waited = 0

\* ------------------------------------------------------------- producers

\* Drop of a handle.
WriteLocal_drop(p) ==
    /\ hstate[p] = "idle"
    /\ hstate' = [hstate EXCEPT ![p] = "dropped"]
    /\ dropat' = IF Live = {p} THEN nsent - nmerged ELSE dropat
    /\ UNCHANGED <<chan, pend, nsent, pc, tmp, cached, todo, files,
                   taken, pre, fpre, snap, wlog, lost, mlast, nmerged, waited>>

\* WriteLocal::write with try_send in place of send: a full channel drops the request.
WriteLocal_try_write(p, f, d) ==
    /\ hstate[p] = "idle"
    /\ nsent < MaxSends
    /\ nsent' = nsent + 1
    /\ LET req == [f |-> f, d |-> d, id |-> nsent + 1, by |-> p] IN
        IF pc # "done" /\ Len(chan) < QueueCap
        THEN chan' = Append(chan, req)
        ELSE UNCHANGED chan
    /\ UNCHANGED <<hstate, pend, pc, tmp, cached, todo, files, hist>>

\* WriteLocal::write: tx.send enqueues when there is room, waits when the
\* channel is full, and fails (the result is discarded) when the receiver is gone.
WriteLocal_write(p, f, d) ==
    /\ hstate[p] = "idle"
    /\ nsent < MaxSends
    /\ nsent' = nsent + 1
    /\ LET req == [f |-> f, d |-> d, id |-> nsent + 1, by |-> p] IN
        IF pc = "done" THEN UNCHANGED <<chan, hstate, pend>>
        ELSE IF Len(chan) < QueueCap
             THEN /\ chan' = Append(chan, req)
                  /\ UNCHANGED <<hstate, pend>>
             ELSE /\ hstate' = [hstate EXCEPT ![p] = "blocked"]
                  /\ pend' = [pend EXCEPT ![p] = req]
                  /\ UNCHANGED chan
    /\ UNCHANGED <<pc, tmp, cached, todo, files, hist>>

\* A waiting send that room in the channel does not wake: only the end of
\* the receiver does.
SendResume_unwoken(p) ==
    /\ hstate[p] = "blocked"
    /\ pc = "done"
    /\ hstate' = [hstate EXCEPT ![p] = "idle"]
    /\ pend' = [pend EXCEPT ![p] = NoEntry]
    /\ UNCHANGED <<chan, nsent, pc, tmp, cached, todo, files, hist>>

\* A waiting send completes once the channel has room, and the call returns;
\* it also returns, its request discarded, when the receiver is gone.
SendResume(p) ==
    /\ hstate[p] = "blocked"
    /\ IF pc = "done" THEN UNCHANGED <<chan, waited>>
       ELSE /\ Len(chan) < QueueCap
            /\ chan' = Append(chan, pend[p])
            /\ waited' = pend[p].id
    /\ hstate' = [hstate EXCEPT ![p] = "idle"]
    /\ pend' = [pend EXCEPT ![p] = NoEntry]
    /\ UNCHANGED <<nsent, pc, tmp, cached, todo, files,
                   taken, pre, fpre, snap, wlog, lost, mlast, nmerged, dropat>>

\* ------------------------------------------------------------ the worker

\* rx.recv() returns a request: a new cycle begins.
RecvOk ==
    /\ pc = "recv"
    /\ chan # <<>>
    /\ tmp' = TmpPush(tmp, Head(chan))
    /\ chan' = Tail(chan)
    /\ pc' = "sleep"
    /\ taken' = <<Head(chan)>>
    /\ pre' = cached
    /\ fpre' = files
    /\ UNCHANGED <<hstate, pend, nsent, cached, todo, files, snap, wlog, lost,
                   mlast, nmerged, dropat, waited>>

\* A recv that fails as soon as every sender is gone, whatever is queued.
RecvClosed_early ==
    /\ pc = "recv"
    /\ Live = {}
    /\ pc' = "done"
    /\ UNCHANGED <<chan, hstate, pend, nsent, tmp, cached, todo, files, hist>>

\* try_recv in place of recv: an empty channel ends the loop.
RecvClosed_tryrecv ==
    /\ pc = "recv"
    /\ chan = <<>>
    /\ pc' = "done"
    /\ UNCHANGED <<chan, hstate, pend, nsent, tmp, cached, todo, files, hist>>

\* The Err arm of rx.recv() without its break: the loop goes on.
RecvClosed_spin ==
    /\ pc = "recv"
    /\ chan = <<>>
    /\ Live = {}
    /\ pc' = "sleep"
    /\ UNCHANGED <<chan, hstate, pend, nsent, tmp, cached, todo, files, hist>>

\* rx.recv() fails: the channel is empty and every sender is gone.
RecvClosed ==
    /\ pc = "recv"
    /\ chan = <<>>
    /\ Live = {}
    /\ pc' = "done"
    /\ UNCHANGED <<chan, hstate, pend, nsent, tmp, cached, todo, files, hist>>

\* The sleep ends and rx.drain() empties the channel into tmp.
Drain ==
    /\ pc = "sleep"
    /\ tmp' = TmpExtend(tmp, chan)
    /\ taken' = TmpExtend(taken, chan)
    /\ chan' = <<>>
    /\ pc' = "merge"
    /\ UNCHANGED <<hstate, pend, nsent, cached, todo, files,
                   pre, fpre, snap, wlog, lost, mlast, nmerged, dropat, waited>>

\* The merge loop over tmp.drain(..); the flush loop begins when it ends.
Merge ==
    /\ pc = "merge"
    /\ LET c == MergeAll(cached, tmp)
       IN /\ cached' = c
          /\ snap' = c
          /\ todo' = Entries(c)
          /\ pc' = "flush"
    /\ tmp' = <<>>
    /\ mlast' = [b \in Producers |-> LastOf(b, tmp, mlast[b])]
    /\ nmerged' = nmerged + Len(tmp)
    /\ UNCHANGED <<chan, hstate, pend, nsent, files, taken, pre, fpre, wlog, lost, dropat, waited>>

\* The flush loop visits an entry with an empty buffer: skipped.
FlushSkip(p) ==
    /\ pc = "flush"
    /\ p \in todo
    /\ FlushSkips(cached[p])
    /\ todo' = todo \ {p}
    /\ UNCHANGED <<chan, hstate, pend, nsent, pc, tmp, cached, files, hist>>

\* The flush loop visits an entry with pending bytes: one physical write with
\* outcome out, then the buffer is cleared.
FlushWrite(p, out) ==
    /\ pc = "flush"
    /\ p \in todo
    /\ ~FlushSkips(cached[p])
    /\ out \in Outcomes(cached[p], files[p])
    /\ files' = [files EXCEPT ![p] = out.content]
    /\ wlog' = [wlog EXCEPT ![p] = Append(@, [kind |-> cached[p].kind,
                   buf |-> cached[p].buf, res |-> out.res, n |-> out.n])]
    /\ lost' = [lost EXCEPT ![p] = IF out.res = "err" THEN @ \cup Range(cached[p].buf) ELSE @]
    /\ cached' = [cached EXCEPT ![p] = AfterWrite(@, out)]
    /\ todo' = FlushRest(todo, p, out)
    /\ UNCHANGED <<chan, hstate, pend, nsent, pc, tmp, taken, pre, fpre, snap,
                   mlast, nmerged, dropat, waited>>

\* The flush loop has visited every entry: back to the top of the loop. The
\* history of the cycle is forgotten.
FlushEnd ==
    /\ pc = "flush"
    /\ todo = {}
    /\ pc' = "recv"
    /\ taken' = <<>>
    /\ pre' = cached
    /\ fpre' = files
    /\ snap' = cached
    /\ wlog' = [f \in Paths |-> <<>>]
    /\ UNCHANGED <<chan, hstate, pend, nsent, tmp, cached, todo, files, lost,
                   mlast, nmerged, dropat, waited>>

\* ------------------------------------------------------ the specification

Next ==
    \/ \E p \in Producers : WriteLocal_drop(p)
    \/ \E p \in Producers, f \in Paths : \E d \in Payloads(nsent + 1) : WriteLocal_write(p, f, d)
    \/ \E p \in Producers : SendResume(p)
    \/ RecvOk
    \/ RecvClosed
    \/ Drain
    \/ Merge
    \/ \E p \in Paths : FlushSkip(p)
    \/ \E p \in Paths : \E out \in Outcomes(cached[p], files[p]) : FlushWrite(p, out)
    \/ FlushEnd

Spec == Init /\ [][Next]_vars

\* The steps of the worker thread.
Worker ==
    \/ RecvOk
    \/ RecvClosed
    \/ Drain
    \/ Merge
    \/ \E p \in Paths : FlushSkip(p)
    \/ \E p \in Paths : \E out \in Outcomes(cached[p], files[p]) : FlushWrite(p, out)
    \/ FlushEnd

\* The payloads of the fair specification: empty or one byte. The variant of
\* a payload decides no branch of the sender or of the worker's loop (only
\* which write the flush makes), so one variant stands for both there.
ControlPayloads(id) == {AppendData(<<>>), AppendData(<<id>>)}

FairNext ==
    \/ \E p \in Producers : WriteLocal_drop(p)
    \/ \E p \in Producers, f \in Paths : \E d \in ControlPayloads(nsent + 1) : WriteLocal_write(p, f, d)
    \/ \E p \in Producers : SendResume(p)
    \/ Worker

\* The worker thread is scheduled, its sleep and its writes end, and a send
\* waiting for room gets it (the channel serves the waiting senders in turn).
FairSpec ==
    /\ Init
    /\ [][FairNext]_vars
    /\ WF_vars(Worker)
    /\ \A p \in Producers : SF_vars(SendResume(p))

TypeOK ==
    /\ pc \in {"recv", "sleep", "merge", "flush", "done"}
    /\ Len(chan) <= QueueCap
    /\ nsent \in 0..MaxSends
    /\ todo \subseteq Paths

\* ------------------------------------------------------------ the claims

\* The non-empty fragments of t addressed to path p, in order.
RECURSIVE FragsOf(_, _)
FragsOf(p, t) ==
    IF t = <<>> THEN <<>>
    ELSE IF Head(t).f = p /\ Len(Head(t).d.buf) > 0
         THEN <<Head(t).d>> \o FragsOf(p, Tail(t))
         ELSE FragsOf(p, Tail(t))

\* The bytes of the fragments of s, one after the other.
RECURSIVE Concat(_)
Concat(s) == IF s = <<>> THEN <<>> ELSE Head(s).buf \o Concat(Tail(s))

AllOfKind(s, k) == \A i \in 1..Len(s) : s[i].kind = k

\* The flush loop of the current cycle has visited every entry.
CycleDone == pc = "flush" /\ todo = {}

\* C1 as stated: every cycle that took only Append fragments (at least one
\* non-empty) for a path ends with one physical write for the path, whose
\* bytes are the fragments' concatenation in channel order.
C1_AsStated ==
    CycleDone =>
        \A p \in Paths :
            LET fr == FragsOf(p, taken) IN
            (fr # <<>> /\ AllOfKind(fr, "Append")) =>
                /\ Len(wlog[p]) = 1
                /\ wlog[p][1].buf = Concat(fr)

\* C1 amended: when the path's entry is absent or of the Append variant as the
\* cycle begins, a cycle that took only Append fragments (at least one
\* non-empty) for the path ends with one append-mode write for it whose buffer
\* is the fragments' concatenation in channel order; the file then holds its
\* earlier content followed by the first n bytes of that buffer, n being the
\* count the write returned (0 on an error).
C1_AppendMerge ==
    CycleDone =>
        \A p \in Paths :
            LET fr == FragsOf(p, taken) IN
            (fr # <<>> /\ AllOfKind(fr, "Append") /\ pre[p].kind # "Override") =>
                /\ Len(wlog[p]) = 1
                /\ wlog[p][1].kind = "Append"
                /\ wlog[p][1].buf = Concat(fr)
                /\ files[p] = fpre[p] \o SubSeq(Concat(fr), 1, wlog[p][1].n)

\* C1 witness: a cycle has merged two Append fragments of one path and
\* written them, whole, with one append.
C1_Witness ==
    /\ CycleDone
    /\ \E p \in Paths :
        /\ Len(FragsOf(p, taken)) = 2
        /\ AllOfKind(FragsOf(p, taken), "Append")
        /\ pre[p].kind # "Override"
        /\ Len(wlog[p]) = 1
        /\ wlog[p][1].n = 2
        /\ files[p] = fpre[p] \o Concat(FragsOf(p, taken))

\* C2 as stated: every cycle that took only Override fragments (at least one
\* non-empty) for a path ends with one physical write of the last fragment's
\* bytes, and a successful write leaves exactly those bytes in the file.
C2_AsStated ==
    CycleDone =>
        \A p \in Paths :
            LET fr == FragsOf(p, taken) IN
            (fr # <<>> /\ AllOfKind(fr, "Override")) =>
                /\ Len(wlog[p]) = 1
                /\ wlog[p][1].buf = fr[Len(fr)].buf
                /\ wlog[p][1].res = "ok" => files[p] = fr[Len(fr)].buf

\* C2 amended: when the path's entry is absent or of the Override variant as
\* the cycle begins, a cycle that took only Override fragments (at least one
\* non-empty) for the path ends with one full-replace write of the last
\* fragment's bytes; if it succeeds the file holds exactly those bytes, and if
\* it fails the file holds its earlier content or a proper prefix of them.
C2_OverrideLast ==
    CycleDone =>
        \A p \in Paths :
            LET fr == FragsOf(p, taken) IN
            (fr # <<>> /\ AllOfKind(fr, "Override") /\ pre[p].kind # "Append") =>
                LET last == fr[Len(fr)].buf IN
                /\ Len(wlog[p]) = 1
                /\ wlog[p][1].kind = "Override"
                /\ wlog[p][1].buf = last
                /\ wlog[p][1].res = "ok" => files[p] = last
                /\ wlog[p][1].res = "err" =>
                       \/ files[p] = fpre[p]
                       \/ \E k \in 0..(Len(last) - 1) : files[p] = SubSeq(last, 1, k)

\* C2 witness: a cycle has taken two Override fragments of one path and its
\* successful write left only the second one in the file.
C2_Witness ==
    /\ CycleDone
    /\ \E p \in Paths :
        /\ Len(FragsOf(p, taken)) = 2
        /\ AllOfKind(FragsOf(p, taken), "Override")
        /\ pre[p].kind # "Append"
        /\ Len(wlog[p]) = 1
        /\ wlog[p][1].res = "ok"
        /\ files[p] = FragsOf(p, taken)[2].buf

\* A step that is a WriteLocal::write call made while the channel is full.
CallOnFull == nsent' = nsent + 1 /\ pc # "done" /\ Len(chan) = QueueCap

Failed(p) == \E i \in 1..Len(wlog[p]) : wlog[p][i].res = "err"

\* C4: a failed physical write neither ends the worker's loop nor touches the
\* write of another path in the same flush: every other path with pending
\* bytes gets its one write, of its own merged buffer, with its own outcome.
C4_Independent ==
    /\ (\E a \in Paths : Failed(a)) => pc = "flush"
    /\ CycleDone =>
        \A a \in Paths, b \in Paths :
            (a # b /\ Failed(a) /\ Len(snap[b].buf) > 0) =>
                /\ Len(wlog[b]) = 1
                /\ wlog[b][1].kind = snap[b].kind
                /\ wlog[b][1].buf = snap[b].buf
                /\ wlog[b][1].res = "ok" =>
                    files[b] = IF snap[b].kind = "Override" THEN snap[b].buf
                               ELSE fpre[b] \o SubSeq(snap[b].buf, 1, wlog[b][1].n)

\* C4 witness: a flush in which one path's write failed and the other path's
\* write succeeded and changed its file.
C4_Witness ==
    /\ CycleDone
    /\ \E a \in Paths, b \in Paths :
        /\ a # b
        /\ Failed(a)
        /\ Len(wlog[b]) = 1
        /\ wlog[b][1].res = "ok"
        /\ wlog[b][1].n = Len(wlog[b][1].buf)
        /\ files[b] # fpre[b]

\* The bytes of the non-empty fragments the current cycle took for path p.
TakenBytes(p) == Range(Concat(FragsOf(p, taken)))

\* C5: after a physical write, failed or not, the entry's buffer is empty and
\* its variant kept; bytes of a failed write are never pending again, and what
\* a cycle writes for a path holds only bytes of fragments that cycle took.
C5_NoRetry ==
    \A p \in Paths :
        /\ Range(cached[p].buf) \cap lost[p] = {}
        /\ (pc = "flush" /\ wlog[p] # <<>>) =>
                cached[p] = [kind |-> snap[p].kind, buf |-> <<>>]
        /\ \A i \in 1..Len(wlog[p]) :
            /\ Range(wlog[p][i].buf) \subseteq TakenBytes(p)
            /\ wlog[p][i].res = "ok" => Range(wlog[p][i].buf) \cap lost[p] = {}

\* C5 witness: a path whose write failed in an earlier cycle has been written
\* again, with new bytes only.
C5_Witness ==
    \E p \in Paths :
        /\ lost[p] # {}
        /\ Len(wlog[p]) = 1
        /\ wlog[p][1].res = "ok"
        /\ wlog[p][1].n = Len(wlog[p][1].buf)
        /\ Range(wlog[p][1].buf) \cap lost[p] = {}

\* C6: physical writes happen only in the flush loop, at most one per path
\* and cycle; a path the loop is done with has been written exactly when its
\* buffer was non-empty after the merge.
C6_Coalesce ==
    /\ \A p \in Paths : Len(wlog[p]) <= 1
    /\ pc # "flush" => \A p \in Paths : wlog[p] = <<>>
    /\ pc = "flush" =>
        \A p \in Paths \ todo : (Len(wlog[p]) = 1) <=> (Len(snap[p].buf) > 0)

\* C6 witness: three non-empty fragments of one path, taken in one cycle,
\* have led to a single physical write.
C6_Witness ==
    /\ CycleDone
    /\ \E p \in Paths : Len(FragsOf(p, taken)) = 3 /\ Len(wlog[p]) = 1

EmptyTaken(p) == \E i \in 1..Len(taken) : taken[i].f = p /\ Len(taken[i].d.buf) = 0

\* C7: merging an empty fragment, of either variant, leaves the map as it is
\* (no entry created, variant and buffer of an existing entry kept), and a
\* cycle that took only empty fragments for a path does not write it.
C7_EmptyNoop ==
    /\ pc = "merge" =>
        \A i \in 1..Len(tmp) :
            Len(tmp[i].d.buf) = 0 =>
                LET c == MergeAll(cached, SubSeq(tmp, 1, i - 1)) IN
                MergeAll(cached, SubSeq(tmp, 1, i)) = c
    /\ pc = "flush" =>
        \A p \in Paths :
            (EmptyTaken(p) /\ FragsOf(p, taken) = <<>>) =>
                /\ snap[p] = pre[p]
                /\ wlog[p] = <<>>
                /\ files[p] = fpre[p]

\* C7 witness: an empty Override fragment taken after a non-empty Append
\* fragment of the same path has left the pending bytes in place.
C7_Witness ==
    /\ pc = "flush"
    /\ \E i \in 1..Len(taken), j \in 1..Len(taken) :
        /\ i < j
        /\ taken[i].f = taken[j].f
        /\ taken[i].d.kind = "Append"
        /\ Len(taken[i].d.buf) > 0
        /\ taken[j].d = OverrideData(<<>>)
        /\ snap[taken[i].f] = AppendData(taken[i].d.buf)

\* C8: a cycle that took no non-empty fragment for a path that already has
\* an entry leaves that entry and the path's file alone: no physical write.
C8_NoRewrite ==
    \A p \in Paths :
        (pre[p].kind # "None" /\ FragsOf(p, taken) = <<>>) =>
            /\ wlog[p] = <<>>
            /\ files[p] = fpre[p]
            /\ cached[p] = pre[p]

\* C8 witness: a cycle set off by another path has written that path and
\* passed over the flushed entry.
C8_Witness ==
    /\ CycleDone
    /\ \E p \in Paths, q \in Paths :
        /\ p # q
        /\ pre[p].kind # "None"
        /\ FragsOf(p, taken) = <<>>
        /\ wlog[p] = <<>>
        /\ Len(wlog[q]) = 1

\* The cycle took one non-empty fragment for each of p and q: an Append one
\* for p, an Override one for q.
AppendAndOverride(p, q) ==
    /\ p # q
    /\ Len(FragsOf(p, taken)) = 1
    /\ FragsOf(p, taken)[1].kind = "Append"
    /\ Len(FragsOf(q, taken)) = 1
    /\ FragsOf(q, taken)[1].kind = "Override"

BothOk(p, q) ==
    /\ Len(wlog[p]) = 1
    /\ wlog[p][1].res = "ok"
    /\ Len(wlog[q]) = 1
    /\ wlog[q][1].res = "ok"

\* C9 as stated: when a cycle took an Append fragment for p and an Override
\* fragment for q, both are written in the cycle, and if both writes succeed
\* p's file is its earlier content followed by the appended bytes, q's file is
\* the override bytes, and the other files are as before.
C9_AsStated ==
    CycleDone =>
        \A p \in Paths, q \in Paths :
            AppendAndOverride(p, q) =>
                /\ Len(wlog[p]) = 1
                /\ Len(wlog[q]) = 1
                /\ BothOk(p, q) =>
                    /\ files[p] = fpre[p] \o FragsOf(p, taken)[1].buf
                    /\ files[q] = FragsOf(q, taken)[1].buf
                    /\ \A r \in Paths \ {p, q} : files[r] = fpre[r]

\* C9 amended: when, besides, p's entry is absent or of the Append variant
\* and q's absent or of the Override variant as the cycle begins, both are
\* written in the cycle, p with an append and q with a full replace; if both
\* writes succeed p's file is its earlier content followed by the first n of
\* the appended bytes (n the count the append returned) and q's file is the
\* override bytes. In every cycle the file of a path for which no non-empty
\* fragment was taken is as before.
C9_PerVariant ==
    CycleDone =>
        /\ \A p \in Paths, q \in Paths :
            (AppendAndOverride(p, q) /\ pre[p].kind # "Override" /\ pre[q].kind # "Append") =>
                /\ Len(wlog[p]) = 1
                /\ wlog[p][1].kind = "Append"
                /\ Len(wlog[q]) = 1
                /\ wlog[q][1].kind = "Override"
                /\ BothOk(p, q) =>
                    /\ files[p] = fpre[p] \o SubSeq(FragsOf(p, taken)[1].buf, 1, wlog[p][1].n)
                    /\ files[q] = FragsOf(q, taken)[1].buf
        /\ \A r \in Paths : FragsOf(r, taken) = <<>> => files[r] = fpre[r]

\* C9 witness: one cycle has appended to one file and replaced the other.
C9_Witness ==
    /\ CycleDone
    /\ \E p \in Paths, q \in Paths :
        /\ AppendAndOverride(p, q)
        /\ pre[p].kind # "Override"
        /\ pre[q].kind # "Append"
        /\ BothOk(p, q)
        /\ wlog[p][1].n = 1
        /\ files[p] = fpre[p] \o FragsOf(p, taken)[1].buf
        /\ Len(fpre[p]) > 0
        /\ files[q] = FragsOf(q, taken)[1].buf
        /\ Len(fpre[q]) > 0

\* The call numbers of producer b's requests in t, in order.
RECURSIVE IdsBy(_, _)
IdsBy(b, t) ==
    IF t = <<>> THEN <<>>
    ELSE IF Head(t).by = b THEN <<Head(t).id>> \o IdsBy(b, Tail(t))
         ELSE IdsBy(b, Tail(t))

Increasing(s) == \A i \in 1..Len(s), j \in 1..Len(s) : i < j => s[i] < s[j]

\* The producer whose call carried byte x in the current cycle.
OwnerOf(x) == (CHOOSE r \in Range(taken) : r.id = x).by

\* C10: for every producer, its requests run through the pipeline in the
\* order of its calls: what the merge loop has processed, then what the
\* worker has taken, then the channel, then the request its send is waiting
\* with; and the bytes one producer added to an Append entry stand in the
\* buffer in the order of its calls.
C10_Order ==
    /\ \A b \in Producers :
        /\ Increasing(<<mlast[b]>> \o IdsBy(b, tmp) \o IdsBy(b, chan)
                      \o (IF hstate[b] = "blocked" THEN <<pend[b].id>> ELSE <<>>))
        /\ Increasing(IdsBy(b, taken) \o IdsBy(b, chan))
    /\ pc = "flush" =>
        \A p \in Paths :
            snap[p].kind = "Append" =>
                \A i \in 1..Len(snap[p].buf), j \in 1..Len(snap[p].buf) :
                    (i < j /\ OwnerOf(snap[p].buf[i]) = OwnerOf(snap[p].buf[j])) =>
                        snap[p].buf[i] < snap[p].buf[j]

\* C10 witness: a cycle after the first has merged two Append fragments of
\* one producer, the received one and a drained one, in the order of its calls.
C10_Witness ==
    /\ pc = "flush"
    /\ \E p \in Paths, b \in Producers :
        /\ pre[p].kind = "Append"
        /\ Len(taken) = 2
        /\ IdsBy(b, taken) = <<taken[1].id, taken[2].id>>
        /\ snap[p].buf = <<taken[1].id, taken[2].id>>
        /\ mlast[b] = taken[2].id

\* C11: an entry is created by the first non-empty fragment taken for its
\* path, with that fragment's variant; it is never removed and its variant
\* never changes; the fragments a cycle takes for the path, of either kind,
\* are merged by the entry's variant (Append: concatenated, Override: the last
\* one stays) and the flush writes by it (append or full replace).
C11_FixedVariant ==
    \A p \in Paths :
        LET fr == FragsOf(p, taken) IN
        /\ pre[p].kind # "None" => cached[p].kind = pre[p].kind
        /\ pc = "flush" =>
            /\ snap[p].kind = IF pre[p].kind # "None" THEN pre[p].kind
                              ELSE IF fr = <<>> THEN "None" ELSE fr[1].kind
            /\ cached[p].kind = snap[p].kind
            /\ snap[p].kind = "Append" => snap[p].buf = Concat(fr)
            /\ (snap[p].kind = "Override" /\ fr # <<>>) => snap[p].buf = fr[Len(fr)].buf
            /\ \A i \in 1..Len(wlog[p]) :
                /\ wlog[p][i].kind = snap[p].kind
                /\ wlog[p][i].buf = snap[p].buf
                /\ (wlog[p][i].res = "ok" /\ snap[p].kind = "Override") =>
                       files[p] = snap[p].buf
                /\ (wlog[p][i].res = "ok" /\ snap[p].kind = "Append") =>
                       files[p] = fpre[p] \o SubSeq(snap[p].buf, 1, wlog[p][i].n)

\* C11 witness: an Override entry of an earlier cycle has taken two Append
\* fragments in one cycle, kept the second only and replaced the file with it.
C11_Witness ==
    /\ CycleDone
    /\ \E p \in Paths :
        /\ pre[p].kind = "Override"
        /\ Len(FragsOf(p, taken)) = 2
        /\ AllOfKind(FragsOf(p, taken), "Append")
        /\ cached[p].kind = "Override"
        /\ Len(wlog[p]) = 1
        /\ wlog[p][1].res = "ok"
        /\ files[p] = FragsOf(p, taken)[2].buf

\* C12: under fair scheduling, once no handle is left the worker ends its loop.
C12_Shutdown == (Live = {}) ~> (pc = "done")

\* C12 witness: the worker has ended after handles were dropped while
\* requests were still to be merged.
C12_Witness == pc = "done" /\ Live = {} /\ dropat > 0

\* No open or write has reported an error so far.
NoErrors == \A p \in Paths : lost[p] = {}

\* C13: while no open or write reports an error, once a cycle is flushed
\* every byte of the non-empty fragments it took for a path that has only
\* received Append fragments is in that path's file.
C13_NoByteLoss ==
    (CycleDone /\ NoErrors) =>
        \A p \in Paths :
            (pre[p].kind # "Override" /\ AllOfKind(FragsOf(p, taken), "Append")) =>
                TakenBytes(p) \subseteq Range(files[p])

\* Request number i is in the channel.
InChan(i) == \E k \in 1..Len(chan) : chan[k].id = i

\* The current cycle took request number i and is flushed; if the request
\* was not empty its path has had its physical write, and the write of an
\* Append entry had the request's bytes in its buffer.
Processed(i) ==
    /\ CycleDone
    /\ \E k \in 1..Len(taken) :
        /\ taken[k].id = i
        /\ Len(taken[k].d.buf) > 0 =>
            /\ Len(wlog[taken[k].f]) = 1
            /\ wlog[taken[k].f][1].kind = "Append" =>
                   Range(taken[k].d.buf) \subseteq Range(wlog[taken[k].f][1].buf)

\* C14: under fair scheduling every request that enters the channel is
\* taken by the worker, and the cycle that took it is flushed with a physical
\* write for the request's path if the request is not empty.
C14_Processed == \A i \in 1..MaxSends : InChan(i) ~> Processed(i)

\* C14 witness: a non-empty request that the drain took from the channel has
\* been merged and its path written.
C14_Witness ==
    /\ Len(taken) >= 2
    /\ Len(taken[2].d.buf) > 0
    /\ Processed(taken[2].id)

\* C15: at the top of the worker's loop the staging vector and the buffer of
\* every entry are empty.
C15_CleanTop ==
    pc = "recv" => (tmp = <<>> /\ \A p \in Paths : cached[p].buf = <<>>)

\* C15 witness: the worker is back at the top of its loop after a cycle in
\* which a write failed, and the entry is there with an empty buffer.
C15_Witness ==
    /\ pc = "recv"
    /\ \E p \in Paths : cached[p].kind # "None" /\ lost[p] # {} /\ cached[p].buf = <<>>

\* C16: the worker has ended its loop only with the channel and the staging
\* vector empty, no send waiting, every request ever submitted merged and
\* every buffer flushed and cleared.
C16_DrainBeforeExit ==
    pc = "done" =>
        /\ chan = <<>>
        /\ tmp = <<>>
        /\ \A b \in Producers : hstate[b] # "blocked"
        /\ nmerged = nsent
        /\ todo = {}
        /\ \A p \in Paths : cached[p].buf = <<>>

\* C16 witness: the last handle went while two requests were still to be
\* merged, and the worker ended after merging them and writing a file.
C16_Witness ==
    /\ pc = "done"
    /\ dropat >= 2
    /\ nmerged = nsent
    /\ \E p \in Paths : files[p] # <<0>>

\* C17: the worker has left its loop only when no handle is left, so no
\* call of WriteLocal::write meets a receiver that is gone.
C17_OutlivesHandles == pc = "done" => Live = {}

\* C17 witness: after a failed write the worker waits in recv, the channel
\* empty, while a handle is still there.
C17_Witness ==
    /\ pc = "recv"
    /\ chan = <<>>
    /\ Live # {}
    /\ \E p \in Paths : lost[p] # {}

\* C18: under fair scheduling a call of WriteLocal::write that waits in
\* front of a full channel returns.
C18_Returns ==
    \A b \in Producers : (hstate[b] = "blocked") ~> (hstate[b] = "idle")

\* C18 witness: a request whose send had waited in front of the full channel
\* was enqueued, its producer is back from the call, and the cycle that took
\* the request is flushed.
C18_Witness ==
    /\ waited > 0
    /\ CycleDone
    /\ \E k \in 1..Len(taken) :
        taken[k].id = waited /\ hstate[taken[k].by] = "idle"
====
